---- MODULE Spec2Model ----
(***************************************************************************)
(* Model of the fMRI denoising pipeline:                                   *)
(*   - FMRIDenoiser (src/Denoising/denoise_fmri.py): constructor, TR       *)
(*     resolution, confound selection, cleaning, saving, JSON sidecar;     *)
(*   - denoise_voxelwise_nifti (src/fmri_denoising.py): the functional     *)
(*     variant with synthetic spike regressors.                            *)
(*                                                                         *)
(* Representation.  A Python string is a sequence of tokens: a token is a  *)
(* word, the comma "," or the blank " ".  A column name is therefore a     *)
(* token sequence (trans_x is <<"trans_x">>, motion_outlier_01 is          *)
(* <<"motion_outlier", "_01">>), so that split(','), strip() and the       *)
(* substring test 'motion_outlier' in col are computed, not assumed.       *)
(* An optional value is a sequence of length at most one: None is <<>>,    *)
(* a present value x is <<x>>.  Times are integers (seconds).  A confound  *)
(* matrix is represented by the ordered list of the columns it was cut     *)
(* from; a regressor synthesized by the program is a sequence of 0/1.      *)
(***************************************************************************)
EXTENDS Integers, Sequences, FiniteSets, TLC

\* ------------------------------------------------------------------ bounds
MaxCols     == 5   \* longest confound table (columns)
MaxExplicit == 2   \* longest explicit column list
MaxStrLen   == 3   \* longest --confound_columns string (tokens)
MaxTR       == 3   \* largest TR value tried (user and header)
MaxSidecarWrites == 1   \* calls of _write_json_sidecar per object
MaxRows     == 155 \* longest confound table (rows) in the functional variant

\* ----------------------------------------------------------- Python values
None      == <<>>
Some(x)   == <<x>>
Val(o)    == o[1]

\* column names that occur in the sources
trans_x        == <<"trans_x">>
trans_y        == <<"trans_y">>
trans_z        == <<"trans_z">>
rot_x          == <<"rot_x">>
rot_y          == <<"rot_y">>
rot_z          == <<"rot_z">>
white_matter   == <<"white_matter">>
csf            == <<"csf">>
global_signal  == <<"global_signal">>
\* column names of fMRIPrep exports that only occur in the inputs
motion_outlier_00 == <<"motion_outlier", "_00">>
motion_outlier_01 == <<"motion_outlier", "_01">>
framewise_displacement == <<"framewise_displacement">>
bogus          == <<"bogus">>

default_cols == <<trans_x, trans_y, trans_z, rot_x, rot_y, rot_z, white_matter, csf>>

\* defaults of the constructor, in mHz
low_pass_default  == 100
high_pass_default == 10

\* ------------------------------------------------------- sequence helpers
\* col in cols
In(col, cols) == \E i \in 1..Len(cols) : cols[i] = col

\* 'motion_outlier' in col
is_motion_outlier(col) == \E i \in 1..Len(col) : col[i] = "motion_outlier"

RECURSIVE split(_)
\* s.split(','): the maximal comma-free pieces of s, empty ones included
split(s) ==
    IF \A i \in 1..Len(s) : s[i] # ","
    THEN <<s>>
    ELSE LET k == CHOOSE i \in 1..Len(s) :
                      s[i] = "," /\ \A j \in 1..(i-1) : s[j] # ","
         IN  <<SubSeq(s, 1, k-1)>> \o split(SubSeq(s, k+1, Len(s)))

RECURSIVE strip(_)
\* c.strip(): c without its leading and trailing blanks
strip(c) ==
    IF c = <<>> THEN c
    ELSE IF Head(c) = " " THEN strip(Tail(c))
    ELSE IF c[Len(c)] = " " THEN strip(SubSeq(c, 1, Len(c)-1))
    ELSE c

\* [c.strip() for c in s.split(',') if c.strip()]
parse_columns(s) ==
    LET parts    == split(s)
        stripped == [i \in 1..Len(parts) |-> strip(parts[i])]
        NonEmpty(c) == c # <<>>
    IN  SelectSeq(stripped, NonEmpty)

\* __init__: a str argument is normalised to a list, anything else is kept
normalize_columns(arg) ==
    IF arg.kind = "str" THEN Some(parse_columns(arg.val))
    ELSE IF arg.kind = "list" THEN Some(arg.val)
    ELSE None

\* the test "not self.confound_columns" in place of "is None"
is_none_falsy(cols) == cols = None \/ Val(cols) = <<>>

\* the test of line 54
is_none(cols) == cols = None

\* the default branch without the use_gsr test
default_selection_always_gsr(table, gsr) ==
    LET Present(c) == In(c, table)
        defaults   == SelectSeq(default_cols, Present)
        spike_cols == SelectSeq(table, is_motion_outlier)
        with_spikes == IF spike_cols # <<>> THEN defaults \o spike_cols ELSE defaults
    IN  IF In(global_signal, table)
        THEN Append(with_spikes, global_signal)
        ELSE with_spikes

\* lines 54-69: self.confound_columns after the default branch
default_selection(table, gsr) ==
    LET Present(c) == In(c, table)
        defaults   == SelectSeq(default_cols, Present)
        spike_cols == SelectSeq(table, is_motion_outlier)
        with_spikes == IF spike_cols # <<>> THEN defaults \o spike_cols ELSE defaults
    IN  IF gsr /\ In(global_signal, table)
        THEN Append(with_spikes, global_signal)
        ELSE with_spikes

\* lines 54-69: the new value of self.confound_columns
selected_columns(cols, table, gsr) ==
    IF is_none(cols) THEN default_selection(table, gsr) ELSE Val(cols)

\* line 71
final_columns(cols, table) ==
    LET Present(c) == In(c, table)
    IN  SelectSeq(cols, Present)

\* the test "tr >= 0" in place of "tr > 0"
valid_tr_nonnegative(tr) == tr >= 0

\* line 38: the header value is usable
valid_tr(tr) == tr > 0

\* line 37: img_obj.header['pixdim'][4]; IndexError when the array is short
has_pixdim4(pixdim) == Len(pixdim) >= 5
pixdim4(pixdim)     == pixdim[5]

\* the header is read even when a TR was passed
user_tr_given_never(tr) == FALSE

\* line 105
user_tr_given(tr) == tr # None

\* ------------------------------------------------------------------ state
VARIABLES
    arg_confound_columns, \* constructor argument confound_columns, as passed
    arg_t_r,              \* constructor argument t_r, as passed
    nifti_file,           \* pixdim array of the header of the file at nifti_path
    confounds_file,       \* column names of the table at confounds_path
    confound_columns,     \* self.confound_columns
    t_r,                  \* self.t_r
    use_gsr,              \* self.use_gsr
    low_pass, high_pass,  \* self.low_pass, self.high_pass
    pc,                   \* position in run()
    img,                  \* run(): img
    header_inspected,     \* _get_tr_from_nifti read the header
    confounds_df,         \* _prepare_confounds(): confounds_df columns
    confounds_matrix,     \* run(): confounds_matrix
    engine_call,          \* arguments of the clean_img call
    output_file,          \* file at output_path
    sidecar,              \* file at the .json path
    sidecar_writes,       \* number of times the .json file was written
    sidecar_pc,           \* position of run() at the last write of the .json
    exit_status,          \* status of sys.exit
    lg_arg, lg_use_gsr, lg_nrows, lg_pc, lg_df, lg_spikes,
    lg_confound_columns, lg_confounds, lg_output

denoiser_vars == <<arg_confound_columns, arg_t_r, nifti_file, confounds_file,
                   confound_columns, t_r, use_gsr, low_pass, high_pass, pc, img,
                   header_inspected, confounds_df, confounds_matrix, engine_call,
                   output_file, sidecar, sidecar_writes, sidecar_pc, exit_status>>
legacy_vars == <<lg_arg, lg_use_gsr, lg_nrows, lg_pc, lg_df, lg_spikes,
                 lg_confound_columns, lg_confounds, lg_output>>
vars == <<denoiser_vars, legacy_vars>>

\* -------------------------------------------- the functional variant: helpers
spike_indices == <<45, 46, 51, 86, 87, 108, 109, 153>>

\* f'custom_spike_{i}'
custom_spike(i) == <<"custom_spike_", ToString(i)>>

\* the 1 placed one row early
spike_reg_row_before(i, n) == [r \in 1..n |-> IF i < n /\ r = i THEN 1 ELSE 0]

\* lines 50-52: reg = np.zeros(n); if i < len(reg): reg[i] = 1   (row i is index i+1)
spike_reg(i, n) == [r \in 1..n |-> IF i < n /\ r = i + 1 THEN 1 ELSE 0]

\* confounds_df[name] = ...: a new column goes last, an existing one keeps its place
add_column(cols, name) == IF In(name, cols) THEN cols ELSE Append(cols, name)

RECURSIVE add_columns(_, _)
add_columns(cols, names) ==
    IF names = <<>> THEN cols
    ELSE add_columns(add_column(cols, Head(names)), Tail(names))

\* line 44: the table's own outlier columns are used, nothing is synthesized
has_spike_cols(table) == SelectSeq(table, is_motion_outlier) # <<>>

custom_spike_names == [k \in 1..Len(spike_indices) |-> custom_spike(spike_indices[k])]

\* lines 43-54: the columns of confounds_df after the default branch
legacy_df(table) ==
    IF has_spike_cols(table) THEN table ELSE add_columns(table, custom_spike_names)

\* lines 35-58: confound_columns after the default branch
legacy_default_columns(table, gsr) ==
    LET spike_cols == SelectSeq(table, is_motion_outlier)
        with_spikes == IF has_spike_cols(table)
                       THEN default_cols \o spike_cols
                       ELSE default_cols \o custom_spike_names
    IN  IF gsr /\ In(global_signal, legacy_df(table))
        THEN Append(with_spikes, global_signal)
        ELSE with_spikes

\* ------------------------------------------------------------ input domains
RECURSIVE Pick(_, _, _)
\* the elements of m at the positions S, in the order of m
Pick(m, S, i) ==
    IF i > Len(m) THEN <<>>
    ELSE (IF i \in S THEN <<m[i]>> ELSE <<>>) \o Pick(m, S, i + 1)

SubSequences(m, maxlen) ==
    { Pick(m, S, 1) : S \in { T \in SUBSET (1..Len(m)) : Cardinality(T) <= maxlen } }

SeqsUpTo(S, n) == UNION { [1..k -> S] : k \in 0..n }

\* a typical export, and one whose columns come in another order
MasterTable  == <<trans_x, trans_y, white_matter, motion_outlier_01, global_signal,
                  motion_outlier_00>>
MasterTable2 == <<framewise_displacement, csf, trans_x>>
ScenarioTable == <<trans_x, trans_y, white_matter, motion_outlier_01, global_signal>>

Tables == SubSequences(MasterTable, MaxCols) \cup SubSequences(MasterTable2, MaxCols)
SmallTables == {<<>>, <<trans_x>>, ScenarioTable}
\* tables with every default column, which the functional variant requires
LegacyTables == SmallTables \cup
    { default_cols \o t : t \in SubSequences(<<motion_outlier_01, global_signal>>, 2) }

ListNames == {trans_x, bogus, global_signal}
Tokens    == {"trans_x", ",", " "}
NoArg     == [kind |-> "none", val |-> <<>>]
ListArgs  == { [kind |-> "list", val |-> l] : l \in SeqsUpTo(ListNames, MaxExplicit) }
StrArgs   == { [kind |-> "str",  val |-> s] : s \in SeqsUpTo(Tokens, MaxStrLen) }
ColumnArgs == {NoArg} \cup ListArgs \cup StrArgs
SmallColumnArgs == {NoArg, [kind |-> "list", val |-> <<trans_x, bogus>>],
                    [kind |-> "str", val |-> <<"trans_x">>]}

TRValues == (-1)..MaxTR
UserTRs  == {None} \cup { Some(v) : v \in TRValues }
\* pixdim of a NIfTI header: qfac, three voxel sizes, the temporal step, three unused
Pixdims  == {<<>>, <<1, 2, 2, 2>>} \cup { <<1, 2, 2, 2, v, 0, 0, 0>> : v \in TRValues }

NRows == { n \in 0..MaxRows :
             \/ n \in {0, MaxRows}
             \/ \E k \in 1..Len(spike_indices) : n \in {spike_indices[k], spike_indices[k] + 1} }

\* -------------------------------------------------------------------- Init
\* FMRIDenoiser.__init__ has run on the arguments
Constructed(args, trs) ==
    /\ arg_confound_columns \in args
    /\ confound_columns = normalize_columns(arg_confound_columns)
    /\ arg_t_r \in trs
    /\ t_r = arg_t_r
    /\ use_gsr \in BOOLEAN
    /\ low_pass = low_pass_default
    /\ high_pass = high_pass_default
    /\ pc = "constructed"
    /\ img = None
    /\ header_inspected = FALSE
    /\ confounds_df = None
    /\ confounds_matrix = None
    /\ engine_call = None
    /\ output_file = None
    /\ sidecar = None
    /\ sidecar_writes = 0
    /\ sidecar_pc = "none"
    /\ exit_status = None

LegacyIdle ==
    /\ lg_arg = None
    /\ lg_use_gsr = FALSE
    /\ lg_nrows = 0
    /\ lg_pc = "idle"
    /\ lg_df = None
    /\ lg_spikes = <<>>
    /\ lg_confound_columns = None
    /\ lg_confounds = None
    /\ lg_output = None

\* every TR input, a few selections
Init ==
    /\ Constructed(SmallColumnArgs, UserTRs)
    /\ nifti_file \in Pixdims
    /\ confounds_file \in SmallTables
    /\ LegacyIdle

\* every selection input; the TR is given, read from the header, or unusable
InitSelector ==
    /\ Constructed(ColumnArgs, {None, Some(MaxTR)})
    /\ nifti_file \in {<<1, 2, 2, 2, 0, 0, 0, 0>>, <<1, 2, 2, 2, 2, 0, 0, 0>>}
    /\ (arg_t_r # None => nifti_file[5] = 0)
    /\ confounds_file \in Tables
    /\ LegacyIdle

\* denoise_voxelwise_nifti is called with a list or without one
InitLegacy ==
    /\ Constructed({NoArg}, {None})
    /\ use_gsr = FALSE
    /\ nifti_file = <<1, 2, 2, 2, 2, 0, 0, 0>>
    /\ confounds_file \in LegacyTables
    /\ lg_arg \in {None} \cup { Some(l) : l \in SeqsUpTo(ListNames, MaxExplicit) }
    /\ lg_use_gsr \in BOOLEAN
    /\ lg_nrows \in NRows
    /\ lg_pc = "called"
    /\ lg_df = None
    /\ lg_spikes = <<>>
    /\ lg_confound_columns = lg_arg
    /\ lg_confounds = None
    /\ lg_output = None

\* ------------------------------------------------- FMRIDenoiser: operations
\* run(), line 102: img = nib.load(self.nifti_path)
LoadImage ==
    /\ pc = "constructed"
    /\ img' = Some(nifti_file)
    /\ pc' = "loaded"
    /\ UNCHANGED <<arg_confound_columns, arg_t_r, nifti_file, confounds_file,
                   confound_columns, t_r, use_gsr, low_pass, high_pass,
                   header_inspected, confounds_df, confounds_matrix, engine_call,
                   output_file, sidecar, sidecar_writes, sidecar_pc, exit_status>>

\* run(), lines 105-108, with _get_tr_from_nifti (lines 31-47)
ResolveTR ==
    /\ pc = "loaded"
    /\ IF user_tr_given(t_r)
       THEN /\ pc' = "tr_resolved"
            /\ UNCHANGED <<t_r, header_inspected, exit_status>>
       ELSE /\ header_inspected' = TRUE
            /\ IF has_pixdim4(Val(img)) /\ valid_tr(pixdim4(Val(img)))
               THEN /\ t_r' = Some(pixdim4(Val(img)))
                    /\ pc' = "tr_resolved"
                    /\ UNCHANGED exit_status
               ELSE /\ exit_status' = Some(1)
                    /\ pc' = "exit"
                    /\ UNCHANGED t_r
    /\ UNCHANGED <<arg_confound_columns, arg_t_r, nifti_file, confounds_file,
                   confound_columns, use_gsr, low_pass, high_pass, img,
                   confounds_df, confounds_matrix, engine_call,
                   output_file, sidecar, sidecar_writes, sidecar_pc>>

\* run(), line 110: _prepare_confounds (lines 49-76)
PrepareConfounds ==
    /\ pc = "tr_resolved"
    /\ confounds_df' = Some(confounds_file)
    /\ confound_columns' = Some(selected_columns(confound_columns, confounds_file, use_gsr))
    /\ confounds_matrix' = Some(final_columns(Val(confound_columns'), confounds_file))
    /\ pc' = "confounds_ready"
    /\ UNCHANGED <<arg_confound_columns, arg_t_r, nifti_file, confounds_file,
                   t_r, use_gsr, low_pass, high_pass, img, header_inspected,
                   engine_call, output_file, sidecar, sidecar_writes, sidecar_pc,
                   exit_status>>

\* run(), lines 113-121: clean_img(img, confounds=..., t_r=self.t_r, ...)
CleanImg ==
    /\ pc = "confounds_ready"
    /\ engine_call' = Some([confounds |-> Val(confounds_matrix),
                            low_pass  |-> low_pass,
                            high_pass |-> high_pass,
                            t_r       |-> Val(t_r)])
    /\ pc' = "cleaned"
    /\ UNCHANGED <<arg_confound_columns, arg_t_r, nifti_file, confounds_file,
                   confound_columns, t_r, use_gsr, low_pass, high_pass, img,
                   header_inspected, confounds_df, confounds_matrix,
                   output_file, sidecar, sidecar_writes, sidecar_pc, exit_status>>

\* run(), lines 123-125: cleaned_img.to_filename(self.output_path)
SaveOutput ==
    /\ pc = "cleaned"
    /\ output_file' = Some(Val(engine_call))
    /\ pc' = "done"
    /\ UNCHANGED <<arg_confound_columns, arg_t_r, nifti_file, confounds_file,
                   confound_columns, t_r, use_gsr, low_pass, high_pass, img,
                   header_inspected, confounds_df, confounds_matrix, engine_call,
                   sidecar, sidecar_writes, sidecar_pc, exit_status>>

\* _write_json_sidecar (lines 78-93).  run() does not call it; a caller that
\* holds the object can, before run() or after run() has returned.
WriteJsonSidecar ==
    /\ pc \in {"constructed", "done"}
    /\ sidecar_writes < MaxSidecarWrites
    /\ sidecar' = Some([ConfoundsFile          |-> "confounds.tsv",
                        RepetitionTime         |-> t_r,
                        ConfoundColumns        |-> confound_columns,
                        LowPassHz              |-> low_pass,
                        HighPassHz             |-> high_pass,
                        GlobalSignalRegression |-> use_gsr])
    /\ sidecar_writes' = sidecar_writes + 1
    /\ sidecar_pc' = pc
    /\ UNCHANGED <<arg_confound_columns, arg_t_r, nifti_file, confounds_file,
                   confound_columns, t_r, use_gsr, low_pass, high_pass, pc, img,
                   header_inspected, confounds_df, confounds_matrix, engine_call,
                   output_file, exit_status>>

\* ------------------------------------- denoise_voxelwise_nifti: operations
\* lines 27-31: nib.load, pd.read_csv(...).fillna(0)
LegacyLoad ==
    /\ lg_pc = "called"
    /\ lg_df' = Some(confounds_file)
    /\ lg_pc' = "loaded"
    /\ UNCHANGED <<lg_arg, lg_use_gsr, lg_nrows, lg_spikes, lg_confound_columns,
                   lg_confounds, lg_output>>

\* lines 34-58: the default branch, spike synthesis included
LegacySelect ==
    /\ lg_pc = "loaded"
    /\ IF lg_confound_columns = None
       THEN /\ lg_confound_columns' = Some(legacy_default_columns(Val(lg_df), lg_use_gsr))
            /\ lg_df' = Some(legacy_df(Val(lg_df)))
            /\ lg_spikes' = IF has_spike_cols(Val(lg_df))
                            THEN lg_spikes
                            ELSE [k \in 1..Len(spike_indices) |->
                                     [name |-> custom_spike(spike_indices[k]),
                                      reg  |-> spike_reg(spike_indices[k], lg_nrows)]]
       ELSE UNCHANGED <<lg_confound_columns, lg_df, lg_spikes>>
    /\ lg_pc' = "selected"
    /\ UNCHANGED <<lg_arg, lg_use_gsr, lg_nrows, lg_confounds, lg_output>>

\* line 61: confounds_df[confound_columns].values; KeyError for a missing name
LegacyMatrix ==
    /\ lg_pc = "selected"
    /\ IF \A k \in 1..Len(Val(lg_confound_columns)) :
             In(Val(lg_confound_columns)[k], Val(lg_df))
       THEN /\ lg_confounds' = Some(Val(lg_confound_columns))
            /\ lg_pc' = "matrix"
       ELSE /\ lg_pc' = "KeyError"
            /\ UNCHANGED lg_confounds
    /\ UNCHANGED <<lg_arg, lg_use_gsr, lg_nrows, lg_df, lg_spikes,
                   lg_confound_columns, lg_output>>

\* lines 68-80: clean_img and to_filename
LegacyCleanAndSave ==
    /\ lg_pc = "matrix"
    /\ lg_output' = Some(Val(lg_confounds))
    /\ lg_pc' = "done"
    /\ UNCHANGED <<lg_arg, lg_use_gsr, lg_nrows, lg_df, lg_spikes,
                   lg_confound_columns, lg_confounds>>

\* ----------------------------------------------------------- specifications
Next ==
    \/ LoadImage /\ UNCHANGED legacy_vars
    \/ ResolveTR /\ UNCHANGED legacy_vars
    \/ PrepareConfounds /\ UNCHANGED legacy_vars
    \/ CleanImg /\ UNCHANGED legacy_vars
    \/ SaveOutput /\ UNCHANGED legacy_vars
    \/ WriteJsonSidecar /\ UNCHANGED legacy_vars

NextLegacy ==
    \/ LegacyLoad /\ UNCHANGED denoiser_vars
    \/ LegacySelect /\ UNCHANGED denoiser_vars
    \/ LegacyMatrix /\ UNCHANGED denoiser_vars
    \/ LegacyCleanAndSave /\ UNCHANGED denoiser_vars

Spec         == Init /\ [][Next]_vars
SpecSelector == InitSelector /\ [][Next]_vars
SpecLegacy   == InitLegacy /\ [][NextLegacy]_vars

\* ------------------------------------------------------ vocabulary of claims
Prepared     == confounds_matrix # None
Selection    == Val(confounds_matrix)
Supplied     == arg_confound_columns.kind # "none"
SuppliedList == IF arg_confound_columns.kind = "str"
                THEN parse_columns(arg_confound_columns.val)
                ELSE arg_confound_columns.val
Names(seq)   == { seq[i] : i \in 1..Len(seq) }
NoDuplicates(seq) == \A i, j \in 1..Len(seq) : i # j => seq[i] # seq[j]
Pos(c, seq)  == CHOOSE i \in 1..Len(seq) : seq[i] = c

RECURSIVE Restrict(_, _)
\* the entries of l that are in S, in the order of l
Restrict(l, S) ==
    IF l = <<>> THEN <<>>
    ELSE (IF Head(l) \in S THEN <<Head(l)>> ELSE <<>>) \o Restrict(Tail(l), S)

\* sel is the default selection for the table: defaults in their fixed order,
\* then the outlier columns in table order, then global_signal if enabled
Group(c) == IF c \in Names(default_cols) THEN 1
            ELSE IF is_motion_outlier(c) THEN 2 ELSE 3
IsDefaultSelection(sel, table, gsr) ==
    /\ Names(sel) = { c \in Names(table) :
                        \/ c \in Names(default_cols)
                        \/ is_motion_outlier(c)
                        \/ (gsr /\ c = global_signal) }
    /\ NoDuplicates(sel)
    /\ \A i, j \in 1..Len(sel) : i < j =>
          \/ Group(sel[i]) < Group(sel[j])
          \/ /\ Group(sel[i]) = 1 /\ Group(sel[j]) = 1
             /\ Pos(sel[i], default_cols) < Pos(sel[j], default_cols)
          \/ /\ Group(sel[i]) = 2 /\ Group(sel[j]) = 2
             /\ Pos(sel[i], table) < Pos(sel[j], table)
    /\ (global_signal \in Names(sel) => sel[Len(sel)] = global_signal)

HeaderStepInvalid == Len(nifti_file) < 5 \/ nifti_file[5] <= 0
UserTRPositive    == arg_t_r # None /\ Val(arg_t_r) > 0

\* ------------------------------------------------------------------ claims
\* C1: the selection handed on by _prepare_confounds contains only column
\* names of the table and contains no name twice.
C1_OnlyTableNamesNoDuplicates ==
    Prepared => /\ Names(Selection) \subseteq Names(confounds_file)
                /\ NoDuplicates(Selection)

\* C2: when explicit columns are supplied, the selection is exactly the
\* supplied entries that are table columns, in the order given, and contains
\* nothing the caller did not list.
C2_ExplicitIsIntersectionInOrder ==
    (Prepared /\ Supplied) =>
        /\ Selection = Restrict(SuppliedList, Names(confounds_file))
        /\ Names(Selection) \subseteq Names(SuppliedList)

C2_Witness ==
    /\ Prepared /\ Supplied
    /\ SuppliedList = <<bogus, trans_x>>
    /\ use_gsr
    /\ {trans_x, trans_y, motion_outlier_01, global_signal} \subseteq Names(confounds_file)

\* C3: with no explicit columns the selection is the present defaults in
\* their fixed order, then the motion_outlier columns in table order, then
\* global_signal last iff GSR is enabled and the table has it; the table
\* [trans_x, trans_y, white_matter, motion_outlier_01, global_signal] gives
\* that list with GSR and the list without global_signal without GSR.
C3_DefaultSelectionOrder ==
    (Prepared /\ ~Supplied) =>
        /\ IsDefaultSelection(Selection, confounds_file, use_gsr)
        /\ (global_signal \in Names(Selection)
              <=> (use_gsr /\ global_signal \in Names(confounds_file)))
        /\ (confounds_file = <<trans_x, trans_y, white_matter, motion_outlier_01,
                               global_signal>> =>
              Selection = IF use_gsr
                          THEN <<trans_x, trans_y, white_matter, motion_outlier_01,
                                 global_signal>>
                          ELSE <<trans_x, trans_y, white_matter, motion_outlier_01>>)

C3_Witness ==
    /\ Prepared /\ ~Supplied /\ use_gsr
    /\ confounds_file = <<trans_x, trans_y, white_matter, motion_outlier_01, global_signal>>
    /\ Selection = confounds_file

\* C4: when explicit columns are absent or empty (a string that parses to no
\* names included), the selection is the default selection.
C4_EmptyExplicitUsesDefaults ==
    (Prepared /\ (~Supplied \/ SuppliedList = <<>>)) =>
        IsDefaultSelection(Selection, confounds_file, use_gsr)

\* C5: the sampling interval passed to the Engine is strictly positive.
C5_EngineTRPositive ==
    engine_call # None => Val(engine_call).t_r > 0

\* C6: with no user TR and a header temporal step that is zero, negative or
\* absent, no TR is resolved, the run ends in the fatal exit with a non-zero
\* status, and the confounds are never loaded, the Engine never invoked and
\* the output never written.
C6_InvalidHeaderIsFatal ==
    (arg_t_r = None /\ HeaderStepInvalid) =>
        /\ t_r = None
        /\ confounds_df = None
        /\ engine_call = None
        /\ output_file = None
        /\ pc \in {"constructed", "loaded", "exit"}
        /\ (pc = "exit" <=> exit_status # None)
        /\ (exit_status # None => Val(exit_status) # 0)

C6_Witness ==
    /\ pc = "exit" /\ exit_status = Some(1) /\ arg_t_r = None
    /\ Len(nifti_file) >= 5 /\ nifti_file[5] = 0

\* C7: with a user TR > 0 the header is never inspected and the Engine gets
\* the user value, whatever the header holds.
C7_UserTRVerbatim ==
    UserTRPositive =>
        /\ ~header_inspected
        /\ t_r = arg_t_r
        /\ (engine_call # None => Val(engine_call).t_r = Val(arg_t_r))

C7_Witness ==
    /\ UserTRPositive /\ engine_call # None
    /\ Len(nifti_file) >= 5 /\ nifti_file[5] > 0 /\ nifti_file[5] # Val(arg_t_r)

\* C8: a run that has completed has written the cleaned image and has written
\* the sidecar exactly once.
C8_CompletedRunWroteBothArtifacts ==
    pc = "done" => /\ output_file # None
                   /\ sidecar # None
                   /\ sidecar_writes = 1

\* C9: the ConfoundColumns of a sidecar written for a completed run are the
\* columns of the matrix that was handed to the Engine.
C9_SidecarColumnsAreEngineColumns ==
    (sidecar # None /\ sidecar_pc = "done") =>
        Val(sidecar).ConfoundColumns = Some(Val(engine_call).confounds)

\* C10 as stated: spikes are synthesized only with no explicit columns and no
\* motion_outlier column, and every custom_spike_i has exactly one 1, at row i.
SpikesOnlyByDefaultWithoutOutliers ==
    lg_spikes # <<>> =>
        /\ lg_arg = None
        /\ \A c \in Names(confounds_file) : ~is_motion_outlier(c)
        /\ Len(lg_spikes) = Len(spike_indices)
        /\ \A k \in 1..Len(lg_spikes) :
              /\ lg_spikes[k].name = <<"custom_spike_", ToString(spike_indices[k])>>
              /\ lg_spikes[k].name \in Names(Val(lg_df))
              /\ lg_spikes[k].name \in Names(Val(lg_confound_columns))
              /\ Len(lg_spikes[k].reg) = lg_nrows
OneAtRow(reg, i) ==
    /\ i + 1 \in 1..Len(reg)
    /\ \A r \in 1..Len(reg) : reg[r] = (IF r = i + 1 THEN 1 ELSE 0)
AllZero(reg) == \A r \in 1..Len(reg) : reg[r] = 0

C10_Original ==
    /\ SpikesOnlyByDefaultWithoutOutliers
    /\ \A k \in 1..Len(lg_spikes) : OneAtRow(lg_spikes[k].reg, spike_indices[k])

\* C10 amended: spikes are synthesized only with no explicit columns and no
\* motion_outlier column; custom_spike_i has exactly one 1, at row i, when the
\* table has more than i rows, and is all zero otherwise.
C10_SpikeIndicatorWithinTable ==
    /\ SpikesOnlyByDefaultWithoutOutliers
    /\ \A k \in 1..Len(lg_spikes) :
          IF spike_indices[k] < lg_nrows
          THEN OneAtRow(lg_spikes[k].reg, spike_indices[k])
          ELSE AllZero(lg_spikes[k].reg)

C10_Witness ==
    /\ lg_spikes # <<>> /\ lg_nrows = 109
    /\ OneAtRow(lg_spikes[6].reg, 108)
    /\ AllZero(lg_spikes[7].reg)
====
